---------------------------- MODULE Spec2Model ----------------------------
(***************************************************************************)
(* A model of the COMS-1 LRIT header decoder (src/coms.py, class COMS).    *)
(*                                                                         *)
(* A COMS object holds the bytes of one LRIT file (lritString) and a byte  *)
(* cursor (byteOffset).  The nine header records are dictionaries that are *)
(* attributes of the class, so there is one of each per process.  Each     *)
(* parse* method is one action.                                            *)
(*                                                                         *)
(* Representation of Python values:                                        *)
(*   bytes        sequence of 0..255                                       *)
(*   str          sequence of code points (decoded text), or a sequence of *)
(*                one-character strings (formatted digits and bits)        *)
(*   int          header_type, header_len and header_offset are naturals;  *)
(*                the result of int.from_bytes and int(s, 2) is unbounded  *)
(*                and is kept as little-endian limbs in base 2^16 with no  *)
(*                leading zero limb (zero is the empty sequence)           *)
(*   dict         function from the keys present to their values           *)
(*   exception    the name of the exception that left the method, "none"   *)
(*                when it returned; nothing in the source catches one, so  *)
(*                the program ends there                                   *)
(***************************************************************************)
EXTENDS Integers, Sequences, FiniteSets, TLC

(***************************************************************************)
(* Bounds of the model.                                                    *)
(***************************************************************************)
\* the number of parse calls of one run
MaxCalls == 3
\* the number of complete headers in front of the last piece of a file
MaxPrefix == 2

(***************************************************************************)
(* Python built-ins used by the source.                                    *)
(***************************************************************************)
Min(a, b) == IF a < b THEN a ELSE b

\* s[a:b] for 0 <= a and 0 <= b: the slice is cut at the end of s, and is
\* empty when b <= a.
Slice(s, a, b) ==
    LET e == Min(b, Len(s))
    IN  IF e > a THEN SubSeq(s, a + 1, e) ELSE <<>>

\* dict with the items of upd written over those of d (d[k] = v, repeated).
Update(d, upd) ==
    [k \in DOMAIN d \cup DOMAIN upd |-> IF k \in DOMAIN upd THEN upd[k] ELSE d[k]]

EmptyDict == [k \in {} |-> 0]

Base == 256 * 256

\* x * m + a on limbs, from limb i on, with the carry so far.
RECURSIVE MulAddFrom(_, _, _, _)
MulAddFrom(x, i, m, carry) ==
    IF i > Len(x)
    THEN IF carry = 0 THEN <<>> ELSE <<carry>>
    ELSE LET v == x[i] * m + carry
         IN  <<v % Base>> \o MulAddFrom(x, i + 1, m, v \div Base)

MulAdd(x, m, a) == MulAddFrom(x, 1, m, a)

\* The value of the digits ds, most significant first, in base radix, after acc.
RECURSIVE Horner(_, _, _, _)
Horner(ds, i, radix, acc) ==
    IF i > Len(ds) THEN acc
    ELSE Horner(ds, i + 1, radix, MulAdd(acc, radix, ds[i]))

FromBytesLittle(bs) ==
    Horner([i \in 1..Len(bs) |-> bs[Len(bs) + 1 - i]], 1, 256, <<>>)

\* int.from_bytes(bs, byteorder='big')
from_bytes(bs) == Horner(bs, 1, 256, <<>>)

\* A Python int known to fit 31 bits, as a natural.
IntOf(x) ==
    IF Len(x) = 0 THEN 0
    ELSE IF Len(x) = 1 THEN x[1]
    ELSE x[1] + Base * x[2]

\* The 16 bits of limb v, most significant first, as characters.
BitChar(b) == IF b = 0 THEN "0" ELSE "1"

RECURSIVE Pow2(_)
Pow2(n) == IF n = 0 THEN 1 ELSE 2 * Pow2(n - 1)

LimbBits(v) == [i \in 1..16 |-> BitChar((v \div Pow2(16 - i)) % 2)]

RECURSIVE StripZeros(_)
StripZeros(s) ==
    IF Len(s) > 1 /\ s[1] = "0" THEN StripZeros(Tail(s)) ELSE s

RECURSIVE AllLimbBits(_, _)
AllLimbBits(x, i) ==
    IF i = 0 THEN <<>> ELSE LimbBits(x[i]) \o AllLimbBits(x, i - 1)

\* bin(x)[2:]
bin(x) == IF Len(x) = 0 THEN <<"0">> ELSE StripZeros(AllLimbBits(x, Len(x)))

\* s.zfill(n) for a string of digits
zfill(s, n) ==
    IF Len(s) >= n THEN s ELSE [i \in 1..(n - Len(s)) |-> "0"] \o s

\* int(s, 2) for a string of the characters 0 and 1
int2(s) == Horner([i \in 1..Len(s) |-> IF s[i] = "1" THEN 1 ELSE 0], 1, 2, <<>>)

(***************************************************************************)
(* bytes.decode(): strict UTF-8.  The result is the text, or the exception.*)
(***************************************************************************)
IsCont(bs, j) == j <= Len(bs) /\ bs[j] \in 128..191

RECURSIVE Utf8From(_, _)
Utf8From(bs, i) ==
    IF i > Len(bs) THEN [ok |-> TRUE, s |-> <<>>]
    ELSE
      LET b == bs[i]
          n == IF b < 128 THEN 1
               ELSE IF b \in 194..223 /\ IsCont(bs, i + 1) THEN 2
               ELSE IF /\ b \in 224..239
                       /\ IsCont(bs, i + 1) /\ IsCont(bs, i + 2)
                       /\ (b = 224 => bs[i + 1] >= 160)
                       /\ (b = 237 => bs[i + 1] <= 159) THEN 3
               ELSE IF /\ b \in 240..244
                       /\ IsCont(bs, i + 1) /\ IsCont(bs, i + 2) /\ IsCont(bs, i + 3)
                       /\ (b = 240 => bs[i + 1] >= 144)
                       /\ (b = 244 => bs[i + 1] <= 143) THEN 4
               ELSE 0
          cp == IF n = 1 THEN b
                ELSE IF n = 2 THEN (b - 192) * 64 + (bs[i + 1] - 128)
                ELSE IF n = 3 THEN (b - 224) * 4096 + (bs[i + 1] - 128) * 64
                                   + (bs[i + 2] - 128)
                ELSE (b - 240) * 262144 + (bs[i + 1] - 128) * 4096
                     + (bs[i + 2] - 128) * 64 + (bs[i + 3] - 128)
          rest == Utf8From(bs, i + n)
      IN  IF n = 0 THEN [ok |-> FALSE, s |-> <<>>]
          ELSE IF rest.ok THEN [ok |-> TRUE, s |-> <<cp>> \o rest.s]
          ELSE rest

decode(bs) == Utf8From(bs, 1)

\* s.index(c) for a one-character c: the 0-based position of the first c in
\* s, or -1 where Python raises ValueError.
RECURSIVE IndexFrom(_, _, _)
IndexFrom(s, c, i) ==
    IF i > Len(s) THEN -1
    ELSE IF s[i] = c THEN i - 1
    ELSE IndexFrom(s, c, i + 1)

index(s, c) == IndexFrom(s, c, 1)

\* s.__contains__(t)
contains(s, t) ==
    \E i \in 0..(Len(s) - Len(t)) : Slice(s, i, i + Len(t)) = t

(***************************************************************************)
(* datetime: the date of a day count from the epoch and the normal form of *)
(* a timedelta, as the source uses them (lines 282 to 288).                *)
(***************************************************************************)
\* days from 0000-03-01 to 1958-01-01, the epoch of line 282
EpochShift == 715085

\* (epoch + timedelta(days=n)): the day, month and year of the proleptic
\* Gregorian calendar.
DateOfDays(n) ==
    LET z   == n + EpochShift
        era == z \div 146097
        doe == z % 146097
        yoe == (doe - doe \div 1460 + doe \div 36524 - doe \div 146096) \div 365
        doy == doe - (365 * yoe + yoe \div 4 - yoe \div 100)
        mp  == (5 * doy + 2) \div 153
        d   == doy - (153 * mp + 2) \div 5 + 1
        m   == IF mp < 10 THEN mp + 3 ELSE mp - 9
        y   == yoe + era * 400 + (IF m <= 2 THEN 1 ELSE 0)
    IN  [day |-> d, month |-> m, year |-> y]

\* x \div d for limbs x and a small d, as a natural (the quotient fits).
RECURSIVE DivFrom(_, _, _, _, _)
DivFrom(x, i, d, q, rem) ==
    IF i = 0 THEN q
    ELSE LET v == rem * Base + x[i]
         IN  DivFrom(x, i - 1, d, q * Base + v \div d, v % d)

\* timedelta(milliseconds=ms): whole days and seconds of the day (the
\* microseconds are not shown by any format the source uses).
timedelta_ms(ms) ==
    LET secs == DivFrom(ms, Len(ms), 1000, 0, 0)
    IN  [days |-> secs \div 86400, seconds |-> secs % 86400]

DigitChar(n) == <<"0", "1", "2", "3", "4", "5", "6", "7", "8", "9">>[n + 1]

Digits2(n) == <<DigitChar((n \div 10) % 10), DigitChar(n % 10)>>

Digits4(n) == Digits2(n \div 100) \o Digits2(n % 100)

\* strftime('%d/%m/%Y')
FormatDate(dt) == Digits2(dt.day) \o <<"/">> \o Digits2(dt.month) \o <<"/">> \o Digits4(dt.year)

\* strftime('%H:%M:%S') of a second of the day
FormatTime(secs) ==
    Digits2(secs \div 3600) \o <<":">> \o Digits2((secs \div 60) % 60) \o <<":">> \o Digits2(secs % 60)

(***************************************************************************)
(* The tables and constants of the class.                                  *)
(***************************************************************************)
fileTypes == {0, 1, 2, 3, 128, 129, 130, 131, 132}

imageTypes == {0, 1, 2, 3}

compressionTypes == {0, 1, 2}

PrimarySignature == <<0, 0, 16>>
ImageStructureSignature == <<1, 0, 9>>
ImageNavigationSignature == <<2, 0, 51>>
ImageDataFunctionSignature == <<3>>
AnnotationTextSignature == <<4>>
TimestampSignature == <<5, 0, 10>>
AncillaryTextSignature == <<6>>
KeySignature == <<7, 0, 7>>
ImageSegmentationSignature == <<128, 0, 7>>

PrimaryLen == 16
ImageStructureLen == 9
ImageNavigationLen == 51
TimestampLen == 10
KeyLen == 7
ImageSegmentationLen == 7

\* The text of the source's string literals, as code points.
GEOS == <<71, 69, 79, 83>>
LeftParen == 40
RightParen == 41

(***************************************************************************)
(* The inputs: the files the model decodes and the paths they are opened   *)
(* by.  A file is up to MaxPrefix complete headers followed by one last    *)
(* piece, which is a header (well-formed or not), a cut header, or other   *)
(* bytes.                                                                  *)
(***************************************************************************)
Pad(bs, n, b) == bs \o [i \in 1..(n - Len(bs)) |-> b]

\* file type 0, total header length 35, data field length 258
PrimaryA == PrimarySignature \o <<0>> \o <<0, 0, 0, 35>> \o <<0, 0, 0, 0, 0, 0, 1, 2>>
\* an unlisted file type and fields with every byte different and high
PrimaryB == PrimarySignature \o <<255>> \o <<255, 254, 253, 252>>
                \o <<241, 242, 243, 244, 245, 246, 247, 248>>
\* the file ends after the signature
PrimaryCut == PrimarySignature
\* the type byte of a primary header with another length
PrimaryOtherLen == <<0, 0, 17>> \o <<0>> \o <<0, 0, 0, 35>> \o <<0, 0, 0, 0, 0, 0, 1, 2>>

ImageStructure(bpp, cols, lines, comp) ==
    ImageStructureSignature \o <<bpp, cols \div 256, cols % 256,
                                 lines \div 256, lines % 256, comp>>

StructFD == ImageStructure(8, 2200, 2200, 0)
StructENH308 == ImageStructure(8, 1547, 308, 1)
StructENH309 == ImageStructure(8, 1547, 309, 2)
StructLSH == ImageStructure(8, 1547, 318, 0)
StructAPNH == ImageStructure(8, 810, 611, 0)
StructOne == ImageStructure(8, 1, 1, 0)
\* the columns of one image type with the lines of another, 1 bit per pixel
\* and an unlisted compression
StructMixed == ImageStructure(1, 2200, 309, 3)
\* the columns and lines of APNH exchanged
StructSwapped == ImageStructure(8, 611, 810, 0)

NavFactors == <<0, 160, 188, 121>> \o <<255, 95, 67, 135>> \o <<1, 2, 3, 4>> \o <<128, 0, 0, 1>>

Navigation(text) == ImageNavigationSignature \o Pad(text, 32, 32) \o NavFactors

\* GEOS(128.2)
NavGEOS == Navigation(GEOS \o <<40, 49, 50, 56, 46, 50, 41>>)
\* MERC(0)
NavOther == Navigation(<<77, 69, 82, 67, 40, 48, 41>>)
\* GEOS, no parentheses
NavNoParen == Navigation(GEOS)
\* )GEOS(
NavReversed == Navigation(<<41>> \o GEOS \o <<40>>)
\* GEOS( then a byte that is no UTF-8, then )
NavNotText == Navigation(GEOS \o <<40, 255, 41>>)
\* the file ends inside the projection string
NavCut == ImageNavigationSignature \o GEOS \o <<40, 49, 41>>

\* A header of a variable length: type byte, declared length, payload.
Variable(type, len, payload) == <<type, len \div 256, len % 256>> \o payload

\* the payloads of the variable headers: declared length and bytes present
VariablePieces ==
    { [len |-> 5, payload |-> <<65, 66>>],          \* AB
      [len |-> 3, payload |-> <<>>],                \* no payload
      [len |-> 2, payload |-> <<>>],                \* shorter than its prefix
      [len |-> 0, payload |-> <<>>],                \* length zero
      [len |-> 5, payload |-> <<195, 169>>],        \* e acute, two bytes, one character
      [len |-> 4, payload |-> <<255>>],             \* no UTF-8
      [len |-> 9, payload |-> <<65, 66>>],          \* the file ends inside the payload
      [len |-> 260, payload |-> <<65>>] }           \* both length bytes used, file cut

VariableHeaders(type) == { Variable(type, v.len, v.payload) : v \in VariablePieces }

Timestamp(p, t) == TimestampSignature \o <<p>> \o t

\* code 100, day 21184, millisecond 43200000 (12:00:00)
TimeNoon == Timestamp(64, <<82, 192, 2, 147, 46, 0>>)
\* code 000, day 0, millisecond 0
TimeZero == Timestamp(0, <<0, 0, 0, 0, 0, 0>>)
\* extension flag, code 010, day 0, millisecond 86400000 (a whole day)
TimeWholeDay == Timestamp(165, <<0, 0, 5, 38, 92, 0>>)
\* every bit set: day 65535, millisecond 4294967295
TimeMax == Timestamp(255, <<255, 255, 255, 255, 255, 255>>)
\* day 59 (1958-03-01), millisecond 86399999 (23:59:59.999)
TimeLastMilli == Timestamp(64, <<0, 59, 5, 38, 91, 255>>)

KeyZero == KeySignature \o <<0, 0, 0, 0>>
KeySet == KeySignature \o <<222, 173, 190, 239>>

Segment == ImageSegmentationSignature \o <<3, 10, 1, 244>>

\* an ancillary text header with one byte of payload
Ancillary == Variable(6, 4, <<65>>)

\* the headers of a file in their usual order: the first MaxPrefix of them
\* may stand in front of the last piece
UsualHeaders == <<PrimaryA, StructFD, TimeNoon, NavGEOS, KeySet>>

LastPieces ==
    {PrimaryA, PrimaryB, PrimaryCut, PrimaryOtherLen}
    \cup {StructFD, StructENH308, StructENH309, StructLSH, StructAPNH, StructOne,
          StructMixed, StructSwapped}
    \cup {NavGEOS, NavOther, NavNoParen, NavReversed, NavNotText, NavCut}
    \cup VariableHeaders(3) \cup VariableHeaders(4)
    \cup {Ancillary, Variable(6, 0, <<>>)}
    \cup {TimeNoon, TimeZero, TimeWholeDay, TimeMax, TimeLastMilli}
    \cup {KeyZero, KeySet, Segment}
    \cup {<<>>, <<255>>}

RECURSIVE Concat(_, _)
Concat(hs, n) == IF n = 0 THEN <<>> ELSE Concat(hs, n - 1) \o hs[n]

Prefixes == {Concat(UsualHeaders, n) : n \in 0..Min(MaxPrefix, Len(UsualHeaders))}

Files == {p \o l : p \in Prefixes, l \in LastPieces}

\* A path, as its parts: str.index looks for the part ".lrit".
LritPath == <<"img", ".lrit">>
OtherPath == <<"img", ".bin">>

\* A file and the path it is opened by.  The path is read by
\* parseImageDataFunctionHeader alone, once the type byte has matched: a path
\* with no ".lrit" is paired with the files that end in such a header.
Inputs ==
    {[path |-> LritPath, file |-> f] : f \in Files}
    \cup {[path |-> OtherPath, file |-> p \o l] : p \in Prefixes, l \in VariableHeaders(3)}

\* The objects of class COMS of a run.
Objects == {1}

(***************************************************************************)
(* The state.                                                              *)
(***************************************************************************)
VARIABLES
    path,                                \* self.path, per object
    lritString,                          \* self.lritString, per object
    byteOffset,                          \* self.byteOffset, per object
    primaryHeader,                       \* the dictionaries of the class
    imageStructureHeader,
    imageNavigationHeader,
    imageDataFunctionHeader,
    annotationTextHeader,
    timestampHeader,
    ancillaryTextHeader,
    keyHeader,
    imageSegmentationInformationHeader,
    disk,                                \* the text files written, by name
    exception,                           \* the exception that ended the run
    calls,                               \* the number of parse calls made
    called                               \* the last call: method and object

headers == <<primaryHeader, imageStructureHeader, imageNavigationHeader,
             imageDataFunctionHeader, annotationTextHeader, timestampHeader,
             ancillaryTextHeader, keyHeader, imageSegmentationInformationHeader>>

vars == <<path, lritString, byteOffset, headers, disk, exception, calls, called>>

\* The class body (lines 60 to 71) and __init__ (lines 74 to 79).
InitOf(objs) ==
    /\ \E input \in [objs -> Inputs] :
          /\ path = [o \in objs |-> input[o].path]
          /\ lritString = [o \in objs |-> input[o].file]
    /\ byteOffset = [o \in objs |-> 0]
    /\ primaryHeader = EmptyDict
    /\ imageStructureHeader = EmptyDict
    /\ imageNavigationHeader = EmptyDict
    /\ imageDataFunctionHeader = EmptyDict
    /\ annotationTextHeader = EmptyDict
    /\ timestampHeader = EmptyDict
    /\ ancillaryTextHeader = EmptyDict
    /\ keyHeader = EmptyDict
    /\ imageSegmentationInformationHeader = EmptyDict
    /\ disk = EmptyDict
    /\ exception = "none"
    /\ calls = 0
    /\ called = <<>>

Init == InitOf(Objects)

\* self.readbytes(offset, length)
readbytes(self, offset, length) ==
    Slice(lritString[self], byteOffset[self] + offset, byteOffset[self] + offset + length)

\* A parse method may be called while no exception has ended the run.
Callable == exception = "none" /\ calls < MaxCalls

\* (a cursor that stops one byte short of the next header)
AdvanceShort(offset, header_len) == offset + header_len - 1

\* self.byteOffset += header_len
Advance(offset, header_len) == offset + header_len

(***************************************************************************)
(* The print methods, as far as a parse method depends on them: they write *)
(* to the console and change no attribute; what matters is how they end.   *)
(***************************************************************************)
printPrimaryHeader(h) ==
    IF h["valid"]
    THEN IF IntOf(h["file_type"]) \in fileTypes THEN "none" ELSE "KeyError"
    ELSE "SystemExit"

printImageStructureHeader(h) ==
    IF h["valid"]
    THEN IF /\ "image_type" \in DOMAIN h
            /\ h["image_type"] \in imageTypes
            /\ IntOf(h["image_compression"]) \in compressionTypes
         THEN "none" ELSE "KeyError"
    ELSE "SystemExit"

printImageNavigationHeader(h) ==
    IF h["valid"]
    THEN IF "projection" \in DOMAIN h THEN "none" ELSE "KeyError"
    ELSE "SystemExit"

printImageDataFunctionHeader(h) == IF h["valid"] THEN "none" ELSE "SystemExit"

printAnnotationTextHeader(h) == IF h["valid"] THEN "none" ELSE "SystemExit"

printTimestampHeader(h) ==
    IF h["valid"]
    THEN IF "p_field_time_code" \in DOMAIN h THEN "none" ELSE "KeyError"
    ELSE "SystemExit"

printKeyHeader(h) == IF h["valid"] THEN "none" ELSE "SystemExit"

printImageSegmentationInformationHeader(h) == IF h["valid"] THEN "none" ELSE "SystemExit"

(***************************************************************************)
(* The parse methods.                                                      *)
(***************************************************************************)
parsePrimaryHeader(self, printInfo) ==
    /\ Callable
    /\ calls' = calls + 1
    /\ called' = <<"parsePrimaryHeader", self>>
    /\ UNCHANGED <<path, lritString, imageStructureHeader,
                   imageNavigationHeader, imageDataFunctionHeader,
                   annotationTextHeader, timestampHeader,
                   ancillaryTextHeader, keyHeader,
                   imageSegmentationInformationHeader>>
    /\ UNCHANGED disk
    /\ IF readbytes(self, 0, 3) = PrimarySignature
       THEN LET h == Update(primaryHeader,
                       [valid |-> TRUE,
                        header_type |-> 0,
                        header_len |-> PrimaryLen,
                        header_offset |-> byteOffset[self],
                        file_type |-> from_bytes(readbytes(self, 3, 1)),
                        total_header_len |-> from_bytes(readbytes(self, 4, 4)),
                        data_field_len |-> from_bytes(readbytes(self, 8, 8))])
            IN  /\ primaryHeader' = h
                /\ byteOffset' = [byteOffset EXCEPT ![self] = Advance(@, h["header_len"])]
                /\ exception' = IF printInfo THEN printPrimaryHeader(h) ELSE "none"
       ELSE /\ primaryHeader' = Update(primaryHeader, [valid |-> FALSE])
            /\ UNCHANGED <<byteOffset, exception>>

\* The image type of a column and line count, or -1 where no branch of
\* lines 148 to 155 assigns one.
ImageTypeOf(cols, lines) ==
    IF cols = <<2200>> /\ lines = <<2200>> THEN 0
    ELSE IF cols = <<1547>> /\ (lines = <<308>> \/ lines = <<309>>) THEN 1
    ELSE IF cols = <<1547>> /\ lines = <<318>> THEN 2
    ELSE IF cols = <<810>> /\ lines = <<611>> THEN 3
    ELSE -1

parseImageStructureHeader(self, printInfo) ==
    /\ Callable
    /\ calls' = calls + 1
    /\ called' = <<"parseImageStructureHeader", self>>
    /\ UNCHANGED <<path, lritString, primaryHeader, imageNavigationHeader,
                   imageDataFunctionHeader, annotationTextHeader,
                   timestampHeader, ancillaryTextHeader, keyHeader,
                   imageSegmentationInformationHeader>>
    /\ UNCHANGED disk
    /\ IF readbytes(self, 0, 3) = ImageStructureSignature
       THEN LET h1 == Update(imageStructureHeader,
                        [valid |-> TRUE,
                         header_type |-> 1,
                         header_len |-> ImageStructureLen,
                         header_offset |-> byteOffset[self],
                         bits_per_pixel |-> readbytes(self, 3, 1),
                         num_cols |-> from_bytes(readbytes(self, 4, 2)),
                         num_lines |-> from_bytes(readbytes(self, 6, 2))])
                t  == ImageTypeOf(h1["num_cols"], h1["num_lines"])
                h2 == IF t >= 0 THEN Update(h1, [image_type |-> t]) ELSE h1
                h  == Update(h2, [image_compression |-> from_bytes(readbytes(self, 8, 1))])
            IN  /\ imageStructureHeader' = h
                /\ byteOffset' = [byteOffset EXCEPT ![self] = Advance(@, h["header_len"])]
                /\ exception' = IF printInfo THEN printImageStructureHeader(h) ELSE "none"
       ELSE /\ imageStructureHeader' = Update(imageStructureHeader, [valid |-> FALSE])
            /\ UNCHANGED <<byteOffset, exception>>

parseImageNavigationHeader(self, printInfo) ==
    /\ Callable
    /\ calls' = calls + 1
    /\ called' = <<"parseImageNavigationHeader", self>>
    /\ UNCHANGED <<path, lritString, primaryHeader, imageStructureHeader,
                   imageDataFunctionHeader, annotationTextHeader,
                   timestampHeader, ancillaryTextHeader, keyHeader,
                   imageSegmentationInformationHeader>>
    /\ UNCHANGED disk
    /\ IF readbytes(self, 0, 3) = ImageNavigationSignature
       THEN LET h1 == Update(imageNavigationHeader,
                        [valid |-> TRUE,
                         header_type |-> 2,
                         header_len |-> ImageNavigationLen,
                         header_offset |-> byteOffset[self]])
                projectionString == decode(readbytes(self, 3, 32))
                h2 == IF contains(projectionString.s, GEOS)
                      THEN Update(h1, [projection |-> "Normalized Geostationary Projection (GEOS)"])
                      ELSE h1
                left  == index(projectionString.s, LeftParen)
                right == index(projectionString.s, RightParen)
                h  == Update(h2,
                        [longitude |-> Slice(projectionString.s, left + 1, right),
                         col_scaling |-> from_bytes(readbytes(self, 35, 4)),
                         line_scaling |-> from_bytes(readbytes(self, 39, 4)),
                         col_offset |-> from_bytes(readbytes(self, 43, 4)),
                         line_offset |-> from_bytes(readbytes(self, 47, 4))])
            IN  IF ~projectionString.ok
                THEN /\ imageNavigationHeader' = h1
                     /\ exception' = "UnicodeDecodeError"
                     /\ UNCHANGED byteOffset
                ELSE IF left < 0 \/ right < 0
                THEN /\ imageNavigationHeader' = h2
                     /\ exception' = "ValueError"
                     /\ UNCHANGED byteOffset
                ELSE /\ imageNavigationHeader' = h
                     /\ byteOffset' = [byteOffset EXCEPT ![self] = Advance(@, h["header_len"])]
                     /\ exception' = IF printInfo THEN printImageNavigationHeader(h) ELSE "none"
       ELSE /\ imageNavigationHeader' = Update(imageNavigationHeader, [valid |-> FALSE])
            /\ UNCHANGED <<byteOffset, exception>>

\* open(name, 'w'), write(text), close()
WriteFile(d, name, text) == Update(d, name :> text)

parseImageDataFunctionHeader(self, printInfo) ==
    /\ Callable
    /\ calls' = calls + 1
    /\ called' = <<"parseImageDataFunctionHeader", self>>
    /\ UNCHANGED <<path, lritString, primaryHeader, imageStructureHeader,
                   imageNavigationHeader, annotationTextHeader,
                   timestampHeader, ancillaryTextHeader, keyHeader,
                   imageSegmentationInformationHeader>>
    /\ IF readbytes(self, 0, 1) = ImageDataFunctionSignature
       THEN LET h1 == Update(imageDataFunctionHeader,
                        [valid |-> TRUE,
                         header_type |-> 3,
                         header_len |-> IntOf(from_bytes(readbytes(self, 1, 2))),
                         header_offset |-> byteOffset[self]])
                text == decode(readbytes(self, 3, h1["header_len"] - 3))
                h2 == Update(h1, [data_definition_block |-> text.s])
                dot == index(path[self], ".lrit")
                h  == Update(h2, [data_definition_block_filename |->
                                    Slice(path[self], 0, dot) \o <<"_IDF-DDB.txt">>])
            IN  IF ~text.ok
                THEN /\ imageDataFunctionHeader' = h1
                     /\ exception' = "UnicodeDecodeError"
                     /\ UNCHANGED <<byteOffset, disk>>
                ELSE IF dot < 0
                THEN /\ imageDataFunctionHeader' = h2
                     /\ exception' = "ValueError"
                     /\ UNCHANGED <<byteOffset, disk>>
                ELSE /\ imageDataFunctionHeader' = h
                     /\ disk' = WriteFile(disk, h["data_definition_block_filename"],
                                          h["data_definition_block"])
                     /\ byteOffset' = [byteOffset EXCEPT ![self] = Advance(@, h["header_len"])]
                     /\ exception' = IF printInfo THEN printImageDataFunctionHeader(h) ELSE "none"
       ELSE UNCHANGED <<imageDataFunctionHeader, byteOffset, exception, disk>>

parseAnnotationTextHeader(self, printInfo) ==
    /\ Callable
    /\ calls' = calls + 1
    /\ called' = <<"parseAnnotationTextHeader", self>>
    /\ UNCHANGED <<path, lritString, primaryHeader, imageStructureHeader,
                   imageDataFunctionHeader, timestampHeader,
                   ancillaryTextHeader, keyHeader,
                   imageSegmentationInformationHeader>>
    /\ UNCHANGED disk
    /\ IF readbytes(self, 0, 1) = AnnotationTextSignature
       THEN LET h1 == Update(annotationTextHeader,
                        [valid |-> TRUE,
                         header_type |-> 4,
                         header_len |-> IntOf(from_bytes(readbytes(self, 1, 2))),
                         header_offset |-> byteOffset[self]])
                text == decode(readbytes(self, 3, h1["header_len"] - 3))
                h  == Update(h1, [text_data |-> text.s])
            IN  /\ UNCHANGED imageNavigationHeader
                /\ IF ~text.ok
                   THEN /\ annotationTextHeader' = h1
                        /\ exception' = "UnicodeDecodeError"
                        /\ UNCHANGED byteOffset
                   ELSE /\ annotationTextHeader' = h
                        /\ byteOffset' = [byteOffset EXCEPT ![self] = Advance(@, h["header_len"])]
                        /\ exception' = IF printInfo THEN printAnnotationTextHeader(h) ELSE "none"
       ELSE \* line 238 writes the record of the image navigation header
            /\ imageNavigationHeader' = Update(imageNavigationHeader, [valid |-> FALSE])
            /\ UNCHANGED <<annotationTextHeader, byteOffset, exception>>

\* The fields of lines 253 to 288, from the P field byte and the T field bytes.
TimeFields(pBytes, tBytes) ==
    LET p_field == zfill(bin(from_bytes(pBytes)), 8)
        pField  == <<Slice(p_field, 0, 1), Slice(p_field, 1, 4), Slice(p_field, 4, 8)>>
        ext     == IF pField[1] = <<"0">> THEN "0 (No extension)" ELSE "1 (Extended field)"
        code    == IF pField[2] = <<"1", "0", "0">>
                   THEN [p_field_time_code |-> "100 (1958 January 1 epoch - Level 1 Time Code)"]
                   ELSE IF pField[2] = <<"0", "1", "0">>
                   THEN [p_field_time_code |-> "010 (Agency-defined epoch - Level 2 Time Code)"]
                   ELSE EmptyDict
        t_field == zfill(bin(from_bytes(tBytes)), 48)
        tField  == <<int2(Slice(t_field, 0, 16)), int2(Slice(t_field, 16, 48))>>
        currentDate == DateOfDays(IntOf(tField[1]))
        moved   == timedelta_ms(tField[2])
    IN  Update(Update([p_field |-> p_field, p_field_ext_flag |-> ext], code),
               [p_field_detail_bits |-> pField[3],
                t_field |-> t_field,
                t_field_day_count |-> tField[1],
                t_field_current_date |-> FormatDate(currentDate),
                t_field_millis |-> tField[2],
                t_field_current_time |-> FormatTime(moved.seconds)])

parseTimestampHeader(self, printInfo) ==
    /\ Callable
    /\ calls' = calls + 1
    /\ called' = <<"parseTimestampHeader", self>>
    /\ UNCHANGED <<path, lritString, primaryHeader, imageStructureHeader,
                   imageNavigationHeader, imageDataFunctionHeader,
                   annotationTextHeader, ancillaryTextHeader, keyHeader,
                   imageSegmentationInformationHeader>>
    /\ UNCHANGED disk
    /\ IF readbytes(self, 0, 3) = TimestampSignature
       THEN LET h1 == Update(timestampHeader,
                        [valid |-> TRUE,
                         header_type |-> 5,
                         header_len |-> TimestampLen,
                         header_offset |-> byteOffset[self]])
                h  == Update(h1, TimeFields(readbytes(self, 3, 1), readbytes(self, 4, 6)))
            IN  /\ timestampHeader' = h
                /\ byteOffset' = [byteOffset EXCEPT ![self] = Advance(@, h["header_len"])]
                /\ exception' = IF printInfo THEN printTimestampHeader(h) ELSE "none"
       ELSE /\ timestampHeader' = Update(timestampHeader, [valid |-> FALSE])
            /\ UNCHANGED <<byteOffset, exception>>

\* Line 303 compares the method self.readbytes itself, which is not called,
\* with a bytes object: the two are never equal.
MethodEqualsBytes(self, bs) == FALSE

parseAncillaryTextHeader(self, printInfo) ==
    /\ Callable
    /\ calls' = calls + 1
    /\ called' = <<"parseAncillaryTextHeader", self>>
    /\ UNCHANGED <<path, lritString, primaryHeader, imageStructureHeader,
                   imageNavigationHeader, imageDataFunctionHeader,
                   annotationTextHeader, timestampHeader, keyHeader,
                   imageSegmentationInformationHeader>>
    /\ UNCHANGED disk
    /\ IF MethodEqualsBytes(self, AncillaryTextSignature)
       THEN LET h == Update(ancillaryTextHeader,
                       [valid |-> TRUE,
                        header_type |-> 6,
                        header_len |-> IntOf(from_bytes(readbytes(self, 1, 2))),
                        header_offset |-> byteOffset[self]])
            IN  /\ ancillaryTextHeader' = h
                /\ byteOffset' = [byteOffset EXCEPT ![self] = Advance(@, h["header_len"])]
                /\ UNCHANGED exception
       ELSE /\ ancillaryTextHeader' = Update(ancillaryTextHeader, [valid |-> FALSE])
            /\ UNCHANGED <<byteOffset, exception>>

parseKeyHeader(self, printInfo) ==
    /\ Callable
    /\ calls' = calls + 1
    /\ called' = <<"parseKeyHeader", self>>
    /\ UNCHANGED <<path, lritString, primaryHeader, imageStructureHeader,
                   imageNavigationHeader, imageDataFunctionHeader,
                   annotationTextHeader, timestampHeader,
                   ancillaryTextHeader, imageSegmentationInformationHeader>>
    /\ UNCHANGED disk
    /\ IF readbytes(self, 0, 3) = KeySignature
       THEN LET h == Update(keyHeader,
                       [valid |-> TRUE,
                        header_type |-> 7,
                        header_len |-> KeyLen,
                        header_offset |-> byteOffset[self],
                        key |-> from_bytes(readbytes(self, 3, 4))])
            IN  /\ keyHeader' = h
                /\ byteOffset' = [byteOffset EXCEPT ![self] = Advance(@, h["header_len"])]
                /\ exception' = IF printInfo THEN printKeyHeader(h) ELSE "none"
       ELSE /\ keyHeader' = Update(keyHeader, [valid |-> FALSE])
            /\ UNCHANGED <<byteOffset, exception>>

parseImageSegmentationInformationHeader(self, printInfo) ==
    /\ Callable
    /\ calls' = calls + 1
    /\ called' = <<"parseImageSegmentationInformationHeader", self>>
    /\ UNCHANGED <<path, lritString, primaryHeader, imageStructureHeader,
                   imageNavigationHeader, imageDataFunctionHeader,
                   annotationTextHeader, timestampHeader,
                   ancillaryTextHeader, keyHeader>>
    /\ UNCHANGED disk
    /\ IF readbytes(self, 0, 3) = ImageSegmentationSignature
       THEN LET h == Update(imageSegmentationInformationHeader,
                       [valid |-> TRUE,
                        header_type |-> 128,
                        header_len |-> ImageSegmentationLen,
                        header_offset |-> byteOffset[self],
                        segment_num |-> from_bytes(readbytes(self, 3, 1)),
                        segment_total |-> from_bytes(readbytes(self, 4, 1)),
                        line_num_of_segment |-> from_bytes(readbytes(self, 5, 2))])
            IN  /\ imageSegmentationInformationHeader' = h
                /\ byteOffset' = [byteOffset EXCEPT ![self] = Advance(@, h["header_len"])]
                /\ exception' = IF printInfo
                                THEN printImageSegmentationInformationHeader(h) ELSE "none"
       ELSE /\ imageSegmentationInformationHeader' =
                   Update(imageSegmentationInformationHeader, [valid |-> FALSE])
            /\ UNCHANGED <<byteOffset, exception>>

\* A caller calls any parse method of any object, with or without printing.
ParsePrimaryHeader ==
    \E self \in DOMAIN lritString, printInfo \in BOOLEAN : parsePrimaryHeader(self, printInfo)

ParseImageStructureHeader ==
    \E self \in DOMAIN lritString, printInfo \in BOOLEAN : parseImageStructureHeader(self, printInfo)

ParseImageNavigationHeader ==
    \E self \in DOMAIN lritString, printInfo \in BOOLEAN : parseImageNavigationHeader(self, printInfo)

ParseImageDataFunctionHeader ==
    \E self \in DOMAIN lritString, printInfo \in BOOLEAN : parseImageDataFunctionHeader(self, printInfo)

ParseAnnotationTextHeader ==
    \E self \in DOMAIN lritString, printInfo \in BOOLEAN : parseAnnotationTextHeader(self, printInfo)

ParseTimestampHeader ==
    \E self \in DOMAIN lritString, printInfo \in BOOLEAN : parseTimestampHeader(self, printInfo)

ParseAncillaryTextHeader ==
    \E self \in DOMAIN lritString, printInfo \in BOOLEAN : parseAncillaryTextHeader(self, printInfo)

ParseKeyHeader ==
    \E self \in DOMAIN lritString, printInfo \in BOOLEAN : parseKeyHeader(self, printInfo)

ParseImageSegmentationInformationHeader ==
    \E self \in DOMAIN lritString, printInfo \in BOOLEAN : parseImageSegmentationInformationHeader(self, printInfo)

Next ==
    \/ ParsePrimaryHeader
    \/ ParseImageStructureHeader
    \/ ParseImageNavigationHeader
    \/ ParseImageDataFunctionHeader
    \/ ParseAnnotationTextHeader
    \/ ParseTimestampHeader
    \/ ParseAncillaryTextHeader
    \/ ParseKeyHeader
    \/ ParseImageSegmentationInformationHeader

Spec == Init /\ [][Next]_vars

(***************************************************************************)
(* What the properties below speak of.                                     *)
(***************************************************************************)
\* The record h is marked valid.
IsValid(h) == "valid" \in DOMAIN h /\ h["valid"] = TRUE

\* The record h is marked invalid.
IsInvalid(h) == "valid" \in DOMAIN h /\ h["valid"] = FALSE

\* The n bytes of the file of self at distance d from its cursor, as far as
\* the file has them.
BytesAt(self, d, n) ==
    LET first == byteOffset[self] + d + 1
        last  == IF byteOffset[self] + d + n <= Len(lritString[self])
                 THEN byteOffset[self] + d + n
                 ELSE Len(lritString[self])
    IN  IF first <= last THEN SubSeq(lritString[self], first, last) ELSE <<>>

\* The file of self holds n bytes from its cursor on, and they start with sig.
HoldsHeader(self, sig, n) ==
    /\ byteOffset[self] + n <= Len(lritString[self])
    /\ BytesAt(self, 0, Len(sig)) = sig

\* The file of self does not start with sig at its cursor.
Mismatch(self, sig) == BytesAt(self, 0, Len(sig)) # sig

\* The 32 bytes of the projection string are ASCII and of the form NAME(longitude).
ProjectionWellFormed(self) ==
    LET t == BytesAt(self, 3, 32)
    IN  /\ \A i \in DOMAIN t : t[i] < 128
        /\ \E i, j \in DOMAIN t : i < j /\ t[i] = 40 /\ t[j] = 41

\* The step is a call of this method of object self.
Did(self, method) == called' = <<method, self>>

\* After the step, record h of object self is valid, starts at the cursor the
\* step began with, and the cursor has moved by n.
DecodedFixed(self, h, n) ==
    /\ IsValid(h)
    /\ h["header_offset"] = byteOffset[self]
    /\ h["header_len"] = n
    /\ byteOffset'[self] = byteOffset[self] + n

(***************************************************************************)
(* C1.  For each header type of a fixed length (Primary 16, ImageStructure *)
(* 9, ImageNavigation 51, Timestamp 10, Key 7, SegmentationInfo 7), a      *)
(* decode that starts at cursor p on a file holding a well-formed header   *)
(* of that type at p records header_offset = p and leaves the cursor at    *)
(* p + header_len; so Primary, ImageStructure and Timestamp decoded one    *)
(* after the other from 0 leave the cursor at 16, 25 and 35.               *)
(***************************************************************************)
C1_FixedHeaderAdvance ==
    [][\A self \in DOMAIN lritString :
        /\ (HoldsHeader(self, <<0, 0, 16>>, 16) /\ Did(self, "parsePrimaryHeader"))
              => DecodedFixed(self, primaryHeader', 16)
        /\ (HoldsHeader(self, <<1, 0, 9>>, 9) /\ Did(self, "parseImageStructureHeader"))
              => DecodedFixed(self, imageStructureHeader', 9)
        /\ (HoldsHeader(self, <<2, 0, 51>>, 51) /\ ProjectionWellFormed(self) /\ Did(self, "parseImageNavigationHeader"))
              => DecodedFixed(self, imageNavigationHeader', 51)
        /\ (HoldsHeader(self, <<5, 0, 10>>, 10) /\ Did(self, "parseTimestampHeader"))
              => DecodedFixed(self, timestampHeader', 10)
        /\ (HoldsHeader(self, <<7, 0, 7>>, 7) /\ Did(self, "parseKeyHeader"))
              => DecodedFixed(self, keyHeader', 7)
        /\ (HoldsHeader(self, <<128, 0, 7>>, 7) /\ Did(self, "parseImageSegmentationInformationHeader"))
              => DecodedFixed(self, imageSegmentationInformationHeader', 7)
      ]_vars

\* Primary, ImageStructure and Timestamp have been decoded back to back from
\* offset 0 and the cursor is at 35.
C1_Witness ==
    /\ IsValid(primaryHeader) /\ primaryHeader["header_offset"] = 0
    /\ IsValid(imageStructureHeader) /\ imageStructureHeader["header_offset"] = 16
    /\ IsValid(timestampHeader) /\ timestampHeader["header_offset"] = 25
    /\ byteOffset[1] = 35
    /\ exception = "none"

(***************************************************************************)
(* C2.  For every one of the nine header types, a decode at a cursor whose *)
(* leading bytes do not match the signature of the type marks the record   *)
(* of that type invalid and leaves the cursor where it was.                *)
(***************************************************************************)
C2_MismatchReported ==
    [][\A self \in DOMAIN lritString :
        /\ (Mismatch(self, <<0, 0, 16>>) /\ Did(self, "parsePrimaryHeader"))
              => (IsInvalid(primaryHeader') /\ UNCHANGED byteOffset)
        /\ (Mismatch(self, <<1, 0, 9>>) /\ Did(self, "parseImageStructureHeader"))
              => (IsInvalid(imageStructureHeader') /\ UNCHANGED byteOffset)
        /\ (Mismatch(self, <<2, 0, 51>>) /\ Did(self, "parseImageNavigationHeader"))
              => (IsInvalid(imageNavigationHeader') /\ UNCHANGED byteOffset)
        /\ (Mismatch(self, <<3>>) /\ Did(self, "parseImageDataFunctionHeader"))
              => (IsInvalid(imageDataFunctionHeader') /\ UNCHANGED byteOffset)
        /\ (Mismatch(self, <<4>>) /\ Did(self, "parseAnnotationTextHeader"))
              => (IsInvalid(annotationTextHeader') /\ UNCHANGED byteOffset)
        /\ (Mismatch(self, <<5, 0, 10>>) /\ Did(self, "parseTimestampHeader"))
              => (IsInvalid(timestampHeader') /\ UNCHANGED byteOffset)
        /\ (Mismatch(self, <<6>>) /\ Did(self, "parseAncillaryTextHeader"))
              => (IsInvalid(ancillaryTextHeader') /\ UNCHANGED byteOffset)
        /\ (Mismatch(self, <<7, 0, 7>>) /\ Did(self, "parseKeyHeader"))
              => (IsInvalid(keyHeader') /\ UNCHANGED byteOffset)
        /\ (Mismatch(self, <<128, 0, 7>>) /\ Did(self, "parseImageSegmentationInformationHeader"))
              => (IsInvalid(imageSegmentationInformationHeader') /\ UNCHANGED byteOffset)
      ]_vars

(***************************************************************************)
(* C3.  Whenever a decode needs bytes beyond the end of the file (the file *)
(* ends right after a matching signature, or the declared length of a      *)
(* variable header exceeds what is left), the decode fails with an error;  *)
(* it never leaves a record marked valid whose fields were computed from   *)
(* fewer bytes than the layout requires.                                   *)
(***************************************************************************)
\* The file of self starts with sig at its cursor and ends before the n
\* bytes of that header do.
CutFixed(self, sig, n) ==
    /\ BytesAt(self, 0, Len(sig)) = sig
    /\ byteOffset[self] + n > Len(lritString[self])

\* The length a variable header at the cursor declares, -1 when the file
\* ends inside the length field.
DeclaredLen(self) ==
    LET l == BytesAt(self, 1, 2)
    IN  IF Len(l) = 2 THEN l[1] * 256 + l[2] ELSE -1

\* The file of self has a variable header of this type at its cursor and
\* ends before that header does.
CutVariable(self, type) ==
    /\ BytesAt(self, 0, 1) = <<type>>
    /\ \/ DeclaredLen(self) < 0
       \/ byteOffset[self] + DeclaredLen(self) > Len(lritString[self])

\* The step ended in an error and did not leave record h valid.
Refused(h) == exception' # "none" /\ ~IsValid(h)

C3_TruncationRefused ==
    [][\A self \in DOMAIN lritString :
        /\ (CutFixed(self, <<0, 0, 16>>, 16) /\ Did(self, "parsePrimaryHeader"))
              => Refused(primaryHeader')
        /\ (CutFixed(self, <<1, 0, 9>>, 9) /\ Did(self, "parseImageStructureHeader"))
              => Refused(imageStructureHeader')
        /\ (CutFixed(self, <<2, 0, 51>>, 51) /\ Did(self, "parseImageNavigationHeader"))
              => Refused(imageNavigationHeader')
        /\ (CutVariable(self, 3) /\ Did(self, "parseImageDataFunctionHeader"))
              => Refused(imageDataFunctionHeader')
        /\ (CutVariable(self, 4) /\ Did(self, "parseAnnotationTextHeader"))
              => Refused(annotationTextHeader')
        /\ (CutFixed(self, <<5, 0, 10>>, 10) /\ Did(self, "parseTimestampHeader"))
              => Refused(timestampHeader')
        /\ (CutVariable(self, 6) /\ Did(self, "parseAncillaryTextHeader"))
              => Refused(ancillaryTextHeader')
        /\ (CutFixed(self, <<7, 0, 7>>, 7) /\ Did(self, "parseKeyHeader"))
              => Refused(keyHeader')
        /\ (CutFixed(self, <<128, 0, 7>>, 7) /\ Did(self, "parseImageSegmentationInformationHeader"))
              => Refused(imageSegmentationInformationHeader')
      ]_vars

(***************************************************************************)
(* C4.  In every reachable state the cursor of an object is at most the    *)
(* length of its file.                                                     *)
(***************************************************************************)
C4_CursorWithinFile ==
    \A self \in DOMAIN lritString : byteOffset[self] <= Len(lritString[self])

(***************************************************************************)
(* C5.  For ImageDataFunction (type byte 3) and AnnotationText (type byte  *)
(* 4), a successful decode at cursor p sets header_len to the big-endian   *)
(* value of bytes p+1..p+2, returns as text exactly the header_len - 3     *)
(* bytes at p+3 .. p+header_len-1, and leaves the cursor at p + header_len.*)
(***************************************************************************)
\* After the step, record h holds under key the text of exactly the bytes the
\* declared length spans, and the cursor has moved by the declared length.
DecodedText(self, h, key) ==
    LET n    == DeclaredLen(self)
        want == IF n > 3 THEN n - 3 ELSE 0
        bs   == BytesAt(self, 3, want)
    IN  /\ IsValid(h)
        /\ h["header_len"] = n
        /\ Len(bs) = want
        /\ key \in DOMAIN h
        /\ h[key] = decode(bs).s
        /\ byteOffset'[self] = byteOffset[self] + n

C5_TextHeaderDecoded ==
    [][\A self \in DOMAIN lritString :
        /\ (BytesAt(self, 0, 1) = <<3>> /\ Did(self, "parseImageDataFunctionHeader") /\ exception' = "none")
              => DecodedText(self, imageDataFunctionHeader', "data_definition_block")
        /\ (BytesAt(self, 0, 1) = <<4>> /\ Did(self, "parseAnnotationTextHeader") /\ exception' = "none")
              => DecodedText(self, annotationTextHeader', "text_data")
      ]_vars

(***************************************************************************)
(* C6.  Decoding an AncillaryText header at a cursor p whose byte is 6     *)
(* yields a valid record with header_type 6, header_offset p and           *)
(* header_len the big-endian value of bytes p+1..p+2, and moves the cursor *)
(* by that header_len.                                                     *)
(***************************************************************************)
C6_AncillaryDecoded ==
    [][\A self \in DOMAIN lritString :
        (BytesAt(self, 0, 1) = <<6>> /\ Did(self, "parseAncillaryTextHeader"))
            => /\ IsValid(ancillaryTextHeader')
               /\ ancillaryTextHeader'["header_type"] = 6
               /\ ancillaryTextHeader'["header_offset"] = byteOffset[self]
               /\ ancillaryTextHeader'["header_len"] = DeclaredLen(self)
               /\ byteOffset'[self] = byteOffset[self] + DeclaredLen(self)
      ]_vars

(***************************************************************************)
(* C7.  The image type of the ImageStructure record is determined only by  *)
(* the columns and lines of the header just decoded: (2200,2200) is Full   *)
(* Disk, (1547,308) and (1547,309) Extended Northern Hemisphere,           *)
(* (1547,318) Limited Southern Hemisphere, (810,611) Asia/Pacific Northern *)
(* Hemisphere, and every other pair yields a valid record with no image    *)
(* type, not the type of an earlier header.                                *)
(***************************************************************************)
\* The classifier of the specification; -1 is no classification.
Classify(cols, lines) ==
    CASE cols = 2200 /\ lines = 2200 -> 0
      [] cols = 1547 /\ lines \in {308, 309} -> 1
      [] cols = 1547 /\ lines = 318 -> 2
      [] cols = 810 /\ lines = 611 -> 3
      [] OTHER -> -1

C7_ImageTypeOfThisHeader ==
    [][\A self \in DOMAIN lritString :
        (HoldsHeader(self, <<1, 0, 9>>, 9) /\ Did(self, "parseImageStructureHeader"))
            => LET b == BytesAt(self, 4, 4)
                   t == Classify(b[1] * 256 + b[2], b[3] * 256 + b[4])
                   h == imageStructureHeader'
               IN  /\ IsValid(h)
                   /\ IF t < 0 THEN "image_type" \notin DOMAIN h
                      ELSE "image_type" \in DOMAIN h /\ h["image_type"] = t
      ]_vars

(***************************************************************************)
(* C8.  For every Timestamp T field, the day count is the high 16 bits and *)
(* the millisecond count the low 32 bits of the 48-bit big-endian value in *)
(* bytes 4 to 9, and the decoded date with the decoded time of day denote  *)
(* the instant 1958-01-01 00:00:00 + day count days + millisecond count    *)
(* milliseconds, for every 16-bit day count and every 32-bit millisecond   *)
(* count.                                                                  *)
(***************************************************************************)
DigitOf(c) == CHOOSE n \in 0..9 : DigitChar(n) = c

NumberOf(cs) == IF Len(cs) = 2 THEN 10 * DigitOf(cs[1]) + DigitOf(cs[2])
                ELSE 1000 * DigitOf(cs[1]) + 100 * DigitOf(cs[2])
                     + 10 * DigitOf(cs[3]) + DigitOf(cs[4])

IsLeap(y) == (y % 4 = 0 /\ y % 100 # 0) \/ y % 400 = 0

RECURSIVE DaysToYear(_)
DaysToYear(y) ==
    IF y <= 1958 THEN 0
    ELSE DaysToYear(y - 1) + (IF IsLeap(y - 1) THEN 366 ELSE 365)

DaysToMonth(m, y) ==
    <<0, 31, 59, 90, 120, 151, 181, 212, 243, 273, 304, 334>>[m]
    + (IF m > 2 /\ IsLeap(y) THEN 1 ELSE 0)

\* The days from 1958-01-01 to the date written DD/MM/YYYY.
DaysSinceEpoch(date) ==
    LET d == NumberOf(SubSeq(date, 1, 2))
        m == NumberOf(SubSeq(date, 4, 5))
        y == NumberOf(SubSeq(date, 7, 10))
    IN  DaysToYear(y) + DaysToMonth(m, y) + d - 1

\* The second of the day written HH:MM:SS.
SecondOfDay(time) ==
    3600 * NumberOf(SubSeq(time, 1, 2)) + 60 * NumberOf(SubSeq(time, 4, 5))
    + NumberOf(SubSeq(time, 7, 8))

\* The number hi * 2^16 + lo for 16-bit hi and lo, as a Python int.
Number32(hi, lo) ==
    IF hi > 0 THEN <<lo, hi>> ELSE IF lo > 0 THEN <<lo>> ELSE <<>>

C8_TimestampInstant ==
    [][\A self \in DOMAIN lritString :
        (HoldsHeader(self, <<5, 0, 10>>, 10) /\ Did(self, "parseTimestampHeader"))
            => LET t    == BytesAt(self, 4, 6)
                   days == t[1] * 256 + t[2]
                   hi   == t[3] * 256 + t[4]
                   lo   == t[5] * 256 + t[6]
                   \* the whole seconds of the millisecond count
                   secs == (hi \div 1000) * 65536 + ((hi % 1000) * 65536 + lo) \div 1000
                   h    == timestampHeader'
               IN  /\ IsValid(h)
                   /\ h["t_field_day_count"] = Number32(0, days)
                   /\ h["t_field_millis"] = Number32(hi, lo)
                   /\ DaysSinceEpoch(h["t_field_current_date"]) = days + secs \div 86400
                   /\ SecondOfDay(h["t_field_current_time"]) = secs % 86400
      ]_vars

(***************************************************************************)
(* C9.  For the integer fields of the headers of a fixed length (Primary   *)
(* file_type, total_header_len, data_field_len; ImageStructure num_cols,   *)
(* num_lines, compression; ImageNavigation column and line scaling and     *)
(* offsets; Key value; SegmentationInfo segment number, segment total and  *)
(* line number), the decoded value is the big-endian unsigned value of     *)
(* exactly the bytes at the offsets of the layout, relative to the start   *)
(* of the header, whatever those bytes are.  The fields of a navigation    *)
(* header exist when its projection text was accepted.                     *)
(***************************************************************************)
\* The big-endian unsigned value of bs as a Python int: limb k, counted from
\* the least significant, is made of the bytes 2k-1 and 2k from the end.
ByteFromEnd(bs, j) == IF j <= Len(bs) THEN bs[Len(bs) + 1 - j] ELSE 0

RECURSIVE DropHighZeros(_)
DropHighZeros(x) ==
    IF Len(x) > 0 /\ x[Len(x)] = 0 THEN DropHighZeros(SubSeq(x, 1, Len(x) - 1)) ELSE x

BigEndian(bs) ==
    DropHighZeros([k \in 1..((Len(bs) + 1) \div 2) |->
                      ByteFromEnd(bs, 2 * k - 1) + 256 * ByteFromEnd(bs, 2 * k)])

\* Record h holds under key the value of the n bytes at distance d from the
\* cursor the step began with.
FieldIs(self, h, key, d, n) ==
    key \in DOMAIN h /\ h[key] = BigEndian(BytesAt(self, d, n))

C9_BigEndianFields ==
    [][\A self \in DOMAIN lritString :
        /\ (HoldsHeader(self, <<0, 0, 16>>, 16) /\ Did(self, "parsePrimaryHeader"))
              => /\ FieldIs(self, primaryHeader', "file_type", 3, 1)
                 /\ FieldIs(self, primaryHeader', "total_header_len", 4, 4)
                 /\ FieldIs(self, primaryHeader', "data_field_len", 8, 8)
        /\ (HoldsHeader(self, <<1, 0, 9>>, 9) /\ Did(self, "parseImageStructureHeader"))
              => /\ FieldIs(self, imageStructureHeader', "num_cols", 4, 2)
                 /\ FieldIs(self, imageStructureHeader', "num_lines", 6, 2)
                 /\ FieldIs(self, imageStructureHeader', "image_compression", 8, 1)
        /\ (/\ HoldsHeader(self, <<2, 0, 51>>, 51)
            /\ Did(self, "parseImageNavigationHeader")
            /\ exception' \notin {"UnicodeDecodeError", "ValueError"})
              => /\ FieldIs(self, imageNavigationHeader', "col_scaling", 35, 4)
                 /\ FieldIs(self, imageNavigationHeader', "line_scaling", 39, 4)
                 /\ FieldIs(self, imageNavigationHeader', "col_offset", 43, 4)
                 /\ FieldIs(self, imageNavigationHeader', "line_offset", 47, 4)
        /\ (HoldsHeader(self, <<7, 0, 7>>, 7) /\ Did(self, "parseKeyHeader"))
              => FieldIs(self, keyHeader', "key", 3, 4)
        /\ (/\ HoldsHeader(self, <<128, 0, 7>>, 7)
            /\ Did(self, "parseImageSegmentationInformationHeader"))
              => /\ FieldIs(self, imageSegmentationInformationHeader', "segment_num", 3, 1)
                 /\ FieldIs(self, imageSegmentationInformationHeader', "segment_total", 4, 1)
                 /\ FieldIs(self, imageSegmentationInformationHeader',
                            "line_num_of_segment", 5, 2)
      ]_vars

\* A primary header whose fields have every byte different and high has been
\* decoded: total_header_len is 0xFFFEFDFC and data_field_len
\* 0xF1F2F3F4F5F6F7F8.
C9_Witness ==
    /\ called = <<"parsePrimaryHeader", 1>>
    /\ IsValid(primaryHeader)
    /\ primaryHeader["file_type"] = <<255>>
    /\ primaryHeader["total_header_len"] = <<65020, 65534>>
    /\ primaryHeader["data_field_len"] = <<63480, 62966, 62452, 61938>>

(***************************************************************************)
(* C10.  After any sequence of decode calls, a record that is marked       *)
(* invalid carries no payload: no header_len, header_offset or field of    *)
(* its type, also when an earlier decode of that type had succeeded.       *)
(***************************************************************************)
NoPayload(h) == IsInvalid(h) => DOMAIN h = {"valid"}

C10_InvalidHasNoPayload ==
    /\ NoPayload(primaryHeader)
    /\ NoPayload(imageStructureHeader)
    /\ NoPayload(imageNavigationHeader)
    /\ NoPayload(imageDataFunctionHeader)
    /\ NoPayload(annotationTextHeader)
    /\ NoPayload(timestampHeader)
    /\ NoPayload(ancillaryTextHeader)
    /\ NoPayload(keyHeader)
    /\ NoPayload(imageSegmentationInformationHeader)

(***************************************************************************)
(* Two decoders.  A program that decodes two files makes two objects of    *)
(* class COMS, one per file, and calls their parse methods in any order.   *)
(***************************************************************************)
TwoObjects == {1, 2}

\* The files of the two objects, whole headers all of them.
TwoFiles ==
    { PrimaryA \o StructFD \o TimeNoon,
      PrimaryA \o StructOne,
      PrimaryA \o NavGEOS,
      Variable(4, 5, <<65, 66>>) }

\* Two objects, each constructed with a file of its own.
InitTwo ==
    /\ InitOf(TwoObjects)
    /\ \A o \in TwoObjects : path[o] = LritPath /\ lritString[o] \in TwoFiles
    /\ lritString[1] # lritString[2]

SpecTwo == InitTwo /\ [][Next]_vars

\* What a caller reads through object self: self.primaryHeader and the other
\* records are the dictionaries of the class, as no object has one of its
\* own; self.byteOffset is the object's own once it has been assigned.
SeenThrough(self) == <<headers, byteOffset[self]>>

\* The step is a call of a parse method of object self.
Called(self) == calls' = calls + 1 /\ called'[2] = self

(***************************************************************************)
(* C11.  Two decoders over two different files share no state: however     *)
(* their decode calls interleave, the records and the cursor seen through  *)
(* one decoder are what they would be had the other never run.  That is,   *)
(* no call on one decoder changes what is seen through the other.          *)
(***************************************************************************)
C11_DecodersIndependent ==
    [][\A self \in DOMAIN lritString, other \in DOMAIN lritString :
        (self # other /\ Called(self)) => SeenThrough(other)' = SeenThrough(other)
      ]_vars

(***************************************************************************)
(* C12.  A decode of header type T that fails its signature check changes  *)
(* nothing but the validity of the record of T: the cursor and the records *)
(* of every other type, their validity included, are as they were before   *)
(* the call.                                                               *)
(***************************************************************************)
\* Records before and after differ at most in the key "valid".
OnlyValidity(before, after) ==
    /\ DOMAIN before \ {"valid"} = DOMAIN after \ {"valid"}
    /\ \A k \in DOMAIN before \ {"valid"} : after[k] = before[k]

\* The step changed at most the validity of the record at place own of
\* headers, and neither a cursor, a file nor a path.
FailedCheckFrame(self, own) ==
    /\ UNCHANGED <<byteOffset, path, lritString, disk>>
    /\ \A i \in 1..9 :
          IF i = own THEN OnlyValidity(headers[i], headers'[i])
          ELSE headers'[i] = headers[i]

C12_FailedCheckFrame ==
    [][\A self \in DOMAIN lritString :
        /\ (Mismatch(self, <<0, 0, 16>>) /\ Did(self, "parsePrimaryHeader"))
              => FailedCheckFrame(self, 1)
        /\ (Mismatch(self, <<1, 0, 9>>) /\ Did(self, "parseImageStructureHeader"))
              => FailedCheckFrame(self, 2)
        /\ (Mismatch(self, <<2, 0, 51>>) /\ Did(self, "parseImageNavigationHeader"))
              => FailedCheckFrame(self, 3)
        /\ (Mismatch(self, <<3>>) /\ Did(self, "parseImageDataFunctionHeader"))
              => FailedCheckFrame(self, 4)
        /\ (Mismatch(self, <<4>>) /\ Did(self, "parseAnnotationTextHeader"))
              => FailedCheckFrame(self, 5)
        /\ (Mismatch(self, <<5, 0, 10>>) /\ Did(self, "parseTimestampHeader"))
              => FailedCheckFrame(self, 6)
        /\ (Mismatch(self, <<6>>) /\ Did(self, "parseAncillaryTextHeader"))
              => FailedCheckFrame(self, 7)
        /\ (Mismatch(self, <<7, 0, 7>>) /\ Did(self, "parseKeyHeader"))
              => FailedCheckFrame(self, 8)
        /\ (Mismatch(self, <<128, 0, 7>>) /\ Did(self, "parseImageSegmentationInformationHeader"))
              => FailedCheckFrame(self, 9)
      ]_vars

(***************************************************************************)
(* C13.  Every decode that yields a valid record moves the cursor forward, *)
(* by at least the three bytes of type and length, so that a caller who    *)
(* decodes until a decode fails or the cursor is at the end of the file    *)
(* stops after finitely many decodes, whatever the file holds, variable    *)
(* headers of declared length 0, 1 or 2 included.                          *)
(***************************************************************************)
\* The step is a call of method on object self at a cursor where sig
\* stands, it returned, and it left record h valid.
Yields(self, sig, method, h) ==
    /\ BytesAt(self, 0, Len(sig)) = sig
    /\ Did(self, method)
    /\ exception' = "none"
    /\ IsValid(h)

\* The step moved the cursor of self forward by three bytes or more.
Progress(self) == byteOffset'[self] >= byteOffset[self] + 3

C13_ValidDecodeProgresses ==
    [][\A self \in DOMAIN lritString :
        /\ Yields(self, <<0, 0, 16>>, "parsePrimaryHeader", primaryHeader')
              => Progress(self)
        /\ Yields(self, <<1, 0, 9>>, "parseImageStructureHeader", imageStructureHeader')
              => Progress(self)
        /\ Yields(self, <<2, 0, 51>>, "parseImageNavigationHeader", imageNavigationHeader')
              => Progress(self)
        /\ Yields(self, <<3>>, "parseImageDataFunctionHeader", imageDataFunctionHeader')
              => Progress(self)
        /\ Yields(self, <<4>>, "parseAnnotationTextHeader", annotationTextHeader')
              => Progress(self)
        /\ Yields(self, <<5, 0, 10>>, "parseTimestampHeader", timestampHeader')
              => Progress(self)
        /\ Yields(self, <<6>>, "parseAncillaryTextHeader", ancillaryTextHeader')
              => Progress(self)
        /\ Yields(self, <<7, 0, 7>>, "parseKeyHeader", keyHeader')
              => Progress(self)
        /\ Yields(self, <<128, 0, 7>>, "parseImageSegmentationInformationHeader", imageSegmentationInformationHeader')
              => Progress(self)
      ]_vars

(***************************************************************************)
(* C14.  A decode is all or nothing: when the signature matches and a text *)
(* field cannot be decoded (bytes that are no text in an ImageDataFunction *)
(* or AnnotationText header, or an ImageNavigation projection string that  *)
(* is no text or lacks "(" or ")"), the decode reports the failure, the    *)
(* cursor stays where it was and the record of that type is not left       *)
(* marked valid; in every reachable state, the cursor has been advanced    *)
(* past every record that is marked valid.                                 *)
(***************************************************************************)
\* The bytes of the text of the variable header at the cursor of self.
TextBytes(self) ==
    BytesAt(self, 3, IF DeclaredLen(self) > 3 THEN DeclaredLen(self) - 3 ELSE 0)

\* A header of this type stands at the cursor and its text is no text.
MalformedVariable(self, type) ==
    /\ BytesAt(self, 0, 1) = <<type>>
    /\ ~decode(TextBytes(self)).ok

\* An ImageNavigation header stands at the cursor and its projection string
\* is no text, or has no "(" or no ")".
MalformedProjection(self) ==
    /\ BytesAt(self, 0, 3) = <<2, 0, 51>>
    /\ LET t == decode(BytesAt(self, 3, 32))
       IN  \/ ~t.ok
           \/ \A i \in DOMAIN t.s : t.s[i] # 40
           \/ \A i \in DOMAIN t.s : t.s[i] # 41

\* The step reported a failure, left the cursor of self where it was and did
\* not leave record h valid.
Rejected(self, h) ==
    /\ exception' # "none"
    /\ byteOffset'[self] = byteOffset[self]
    /\ ~IsValid(h)

\* Some cursor is past the record h.
Passed(h) ==
    \E self \in DOMAIN lritString : byteOffset[self] >= h["header_offset"] + h["header_len"]

C14_AllOrNothing ==
    [][/\ \A self \in DOMAIN lritString :
            /\ (MalformedProjection(self) /\ Did(self, "parseImageNavigationHeader"))
                  => Rejected(self, imageNavigationHeader')
            /\ (MalformedVariable(self, 3) /\ Did(self, "parseImageDataFunctionHeader"))
                  => Rejected(self, imageDataFunctionHeader')
            /\ (MalformedVariable(self, 4) /\ Did(self, "parseAnnotationTextHeader"))
                  => Rejected(self, annotationTextHeader')
       /\ \A i \in 1..9 : IsValid(headers'[i]) => Passed(headers[i])'
      ]_vars

=============================================================================
